---- MODULE Spec2Model ----
(***************************************************************************)
(* innerself-ai-server: the two POST handlers /ai/three-card/basic and     *)
(* /ai/three-card/clear, in the three revisions the repository holds:      *)
(*   "r1"  src/index.js lines 1-331      (JSON mode, extractText)          *)
(*   "r2"  src/index.js lines 333-673    (strict json_schema, V2 prompts)  *)
(*   "r3"  src/unnamed/part_001          (JSON mode, timed, extractText)   *)
(*                                                                         *)
(* JavaScript values are tagged records.  A string is a sequence of units: *)
(* a unit is one UTF-16 code unit C(cp), or Members(v), which abbreviates  *)
(* the run of characters JSON.stringify writes between the braces of the   *)
(* non-empty object v.                                                     *)
(***************************************************************************)
EXTENDS Integers, Sequences, FiniteSets, TLC

VARIABLES rev, variant, body, pc, prompt, calls, ai, rawText, caught, jsonParses, res

vars == <<rev, variant, body, pc, prompt, calls, ai, rawText, caught, jsonParses, res>>

(* ------------------------------ bounds -------------------------------- *)

\* Longest run of padding (whitespace or noise) put around a reply text.
MaxPad == 1

\* Number of content blocks in a nested reply item.
MaxBlocks == 2

(* --------------------------- JavaScript values ------------------------ *)

Undefined == [t |-> "undefined"]

Null == [t |-> "null"]

None == [t |-> "none"]

Str(s) == [t |-> "string", s |-> s]

Num(n) == [t |-> "number", n |-> n]

Arr(a) == [t |-> "array", a |-> a]

Obj(f) == [t |-> "object", f |-> f]

EmptyObject == [k \in {} |-> Null]

C(cp) == [k |-> "c", cp |-> cp]

Members(v) == [k |-> "members", v |-> v]

Chars(cps) == [i \in 1..Len(cps) |-> C(cps[i])]

JSStr(cps) == Str(Chars(cps))

LBrace == C(123)

RBrace == C(125)

Space == C(32)

Newline == C(10)

NoiseChar == C(120)

IsNullish(v) == v.t \in {"undefined", "null"}

IsString(v) == v.t = "string"

IsArray(v) == v.t = "array"

\* JavaScript truthiness of a value.
Truthy(v) ==
  CASE v.t \in {"undefined", "null"} -> FALSE
    [] v.t = "string" -> Len(v.s) > 0
    [] v.t = "number" -> v.n # 0
    [] OTHER -> TRUE

\* v?.name : undefined for nullish v and for a value without that property.
Get(v, name) ==
  IF v.t = "object" /\ name \in DOMAIN v.f THEN v.f[name] ELSE Undefined

Ok(v) == [ok |-> TRUE, val |-> v]

Throw(e) == [ok |-> FALSE, err |-> e]

TypeError == [name |-> "TypeError", message |-> "not a function"]

SyntaxError == [name |-> "SyntaxError", message |-> "Unexpected token"]

(* ------------------------------ strings ------------------------------- *)

\* The characters String.prototype.trim strips (those the model uses).
IsWS(u) == u.k = "c" /\ u.cp \in {9, 10, 13, 32}

\* String.prototype.trim on a sequence of units.
Trim(s) ==
  LET keep == {i \in 1..Len(s) : ~IsWS(s[i])}
  IN  IF keep = {} THEN <<>>
      ELSE LET lo == CHOOSE i \in keep : \A j \in keep : i <= j
               hi == CHOOSE i \in keep : \A j \in keep : j <= i
           IN  SubSeq(s, lo, hi)

\* String.prototype.slice(0, n).
Slice0(s, n) == SubSeq(s, 1, IF Len(s) < n THEN Len(s) ELSE n)

RECURSIVE Join(_, _)
\* Array.prototype.join: the chunks in list order with sep between them.
Join(chunks, sep) ==
  IF Len(chunks) = 0 THEN <<>>
  ELSE IF Len(chunks) = 1 THEN chunks[1]
  ELSE chunks[1] \o sep \o Join(Tail(chunks), sep)

\* JSON.stringify of a non-empty object.
Stringify(v) == <<LBrace, Members(v), RBrace>>

\* JSON.parse on a string: whitespace between tokens is insignificant; the
\* text must be exactly one object, empty or with a well-formed member run.
JSONparse(s) ==
  LET toks == SelectSeq(s, LAMBDA u : ~IsWS(u))
  IN  IF toks = <<LBrace, RBrace>> THEN Ok(EmptyObject)
      ELSE IF Len(toks) = 3 /\ toks[1] = LBrace /\ toks[2].k = "members"
                /\ toks[3] = RBrace
      THEN Ok(toks[2].v)
      ELSE Throw(SyntaxError)

(* ------------------------------ helpers ------------------------------- *)

\* a[i] of a JavaScript array, indexed from 0; undefined beyond its length.
El(arr, i) == IF i + 1 <= Len(arr.a) THEN arr.a[i + 1] ELSE Undefined

\* The texts pushed from one content array (r1): typeof c?.text === "string"
\* with length > 0, whatever the block's type.
BlockTexts1(blocks) ==
  LET sel == SelectSeq(blocks, LAMBDA c :
                 IsString(Get(c, "text")) /\ Len(Get(c, "text").s) > 0)
  IN  [i \in 1..Len(sel) |-> Get(sel[i], "text").s]

RECURSIVE Chunks1(_)
\* The chunks array after the walk output -> content (r1).
Chunks1(items) ==
  IF Len(items) = 0 THEN <<>>
  ELSE (IF IsArray(Get(items[1], "content"))
        THEN BlockTexts1(Get(items[1], "content").a) ELSE <<>>)
       \o Chunks1(Tail(items))

\* extractText, r1.
extractText1(resp) ==
  LET ot  == Get(resp, "output_text")
      out == Get(resp, "output")
  IN  IF IsString(ot) /\ Len(ot.s) > 0 THEN ot
      ELSE LET chunks == IF IsArray(out) THEN Chunks1(out.a) ELSE <<>>
           IN  IF Len(chunks) > 0 THEN Str(Join(chunks, <<>>)) ELSE Str(<<>>)

\* The texts pushed from one content array (r3): trimmed, when non-blank.
BlockTexts3(blocks) ==
  LET sel == SelectSeq(blocks, LAMBDA c :
                 IsString(Get(c, "text")) /\ Len(Trim(Get(c, "text").s)) > 0)
  IN  [i \in 1..Len(sel) |-> Trim(Get(sel[i], "text").s)]

RECURSIVE Chunks3(_)
\* The chunks array after the walk output -> content (r3).
Chunks3(items) ==
  IF Len(items) = 0 THEN <<>>
  ELSE (IF IsArray(Get(items[1], "content"))
        THEN BlockTexts3(Get(items[1], "content").a) ELSE <<>>)
       \o Chunks3(Tail(items))

\* extractText, r3.
extractText3(resp) ==
  LET ot  == Get(resp, "output_text")
      out == Get(resp, "output")
  IN  IF IsString(ot) /\ Len(Trim(ot.s)) > 0 THEN Str(Trim(ot.s))
      ELSE LET chunks == IF IsArray(out) THEN Chunks3(out.a) ELSE <<>>
           IN  IF Len(chunks) > 0 THEN Str(Join(chunks, <<Newline>>))
               ELSE Str(<<>>)

\* err.preview = s.slice(0, 300) in r1.
PreviewLen1 == 300

\* err.preview = s.slice(0, 400) in r3.
PreviewLen3 == 400

\* parseModelJSON of r1 and r3, which differ in the preview length only.
\* parses counts the calls of JSON.parse.
parseModelJSONCoded(raw, previewLen) ==
  IF ~(IsNullish(raw) \/ IsString(raw))
  THEN [ok |-> FALSE, err |-> TypeError, parses |-> 0]
  ELSE LET s == Trim(IF IsNullish(raw) THEN <<>> ELSE raw.s)
       IN  IF Len(s) = 0
           THEN [ok |-> FALSE, parses |-> 0,
                 err |-> [message |-> "EMPTY_MODEL_OUTPUT",
                          code |-> "EMPTY_MODEL_OUTPUT"]]
           ELSE LET p == JSONparse(s)
                IN  IF p.ok THEN [ok |-> TRUE, val |-> p.val, parses |-> 1]
                    ELSE [ok |-> FALSE, parses |-> 1,
                          err |-> [message |-> "JSON_PARSE_FAILED",
                                   code |-> "JSON_PARSE_FAILED",
                                   details |-> p.err.message,
                                   preview |-> Slice0(s, previewLen)]]

\* parseModelJSON, r1.
parseModelJSON1(raw) == parseModelJSONCoded(raw, PreviewLen1)

\* parseModelJSON, r3.
parseModelJSON3(raw) == parseModelJSONCoded(raw, PreviewLen3)

\* parseModelJSON of r2 with the empty check left out: the trimmed text goes
\* to JSON.parse as it is.
parseModelJSON2NoEmptyCheck(text) ==
  IF ~(IsNullish(text) \/ IsString(text))
  THEN [ok |-> FALSE, err |-> TypeError, parses |-> 0]
  ELSE LET p == JSONparse(Trim(IF IsNullish(text) THEN <<>> ELSE text.s))
       IN  IF p.ok THEN [ok |-> TRUE, val |-> p.val, parses |-> 1]
           ELSE [ok |-> FALSE, err |-> p.err, parses |-> 1]

\* parseModelJSON, r2: no try/catch around JSON.parse, no code on the error.
parseModelJSON2(text) ==
  IF ~(IsNullish(text) \/ IsString(text))
  THEN [ok |-> FALSE, err |-> TypeError, parses |-> 0]
  ELSE LET trimmed == Trim(IF IsNullish(text) THEN <<>> ELSE text.s)
       IN  IF Len(trimmed) = 0
           THEN [ok |-> FALSE, parses |-> 0,
                 err |-> [message |-> "EMPTY_MODEL_OUTPUT"]]
           ELSE LET p == JSONparse(trimmed)
                IN  IF p.ok THEN [ok |-> TRUE, val |-> p.val, parses |-> 1]
                    ELSE [ok |-> FALSE, err |-> p.err, parses |-> 1]

\* normalizeContext, r2: (context ?? "").trim(), null when that is empty.
normalizeContext(context) ==
  IF ~(IsNullish(context) \/ IsString(context)) THEN Throw(TypeError)
  ELSE LET c == Trim(IF IsNullish(context) THEN <<>> ELSE context.s)
       IN  Ok(IF Len(c) > 0 THEN Str(c) ELSE Null)

(* --------------------------- prompt builders -------------------------- *)

\* The text "null" the builders write for an absent context.
NullWord == JSStr(<<110, 117, 108, 108>>)

\* const ctx = context && context.trim() ? context.trim() : "null" (r1, r3):
\* a truthy context that is not a string has no trim method.
ctxOf(context) ==
  IF ~Truthy(context) THEN Ok(NullWord)
  ELSE IF ~IsString(context) THEN Throw(TypeError)
  ELSE Ok(IF Len(Trim(context.s)) > 0 THEN Str(Trim(context.s)) ELSE NullWord)

\* buildBasicPrompt, r1: the template's holes, in the order it fills them.
buildBasicPrompt1(b) ==
  LET ctx == ctxOf(b.context)
  IN  IF ~ctx.ok THEN ctx
      ELSE Ok([template |-> "basic", question |-> b.question, ctx |-> ctx.val,
               cards |-> <<El(b.mainCards, 0), El(b.mainCards, 1),
                           El(b.mainCards, 2)>>])

\* buildClearPrompt, r1.
buildClearPrompt1(b) ==
  LET ctx == ctxOf(b.context)
  IN  IF ~ctx.ok THEN ctx
      ELSE Ok([template |-> "clear", question |-> b.question, ctx |-> ctx.val,
               cards |-> <<El(b.mainCards, 0), El(b.mainCards, 1),
                           El(b.mainCards, 2)>>,
               branches |-> [i \in 1..9 |-> El(b.branchCards, i - 1)]])

\* buildBasicPrompt, r3.
buildBasicPrompt3(b) ==
  LET ctx == ctxOf(b.context)
  IN  IF ~ctx.ok THEN ctx
      ELSE Ok([template |-> "basic", question |-> b.question, ctx |-> ctx.val,
               cards |-> <<El(b.mainCards, 0), El(b.mainCards, 1),
                           El(b.mainCards, 2)>>])

\* buildClearPrompt, r3.
buildClearPrompt3(b) ==
  LET ctx == ctxOf(b.context)
  IN  IF ~ctx.ok THEN ctx
      ELSE Ok([template |-> "clear", question |-> b.question, ctx |-> ctx.val,
               cards |-> <<El(b.mainCards, 0), El(b.mainCards, 1),
                           El(b.mainCards, 2)>>,
               branches |-> [i \in 1..9 |-> El(b.branchCards, i - 1)]])

\* buildBasicPromptV2, r2: ctx = normalizeContext(context), ${ctx ?? "null"}.
buildBasicPromptV2(b) ==
  LET n == normalizeContext(b.context)
  IN  IF ~n.ok THEN n
      ELSE Ok([template |-> "basicV2", question |-> b.question,
               ctx |-> IF IsNullish(n.val) THEN NullWord ELSE n.val,
               cards |-> <<El(b.mainCards, 0), El(b.mainCards, 1),
                           El(b.mainCards, 2)>>])

\* buildClearPromptV2, r2.
buildClearPromptV2(b) ==
  LET n == normalizeContext(b.context)
  IN  IF ~n.ok THEN n
      ELSE Ok([template |-> "clearV2", question |-> b.question,
               ctx |-> IF IsNullish(n.val) THEN NullWord ELSE n.val,
               cards |-> <<El(b.mainCards, 0), El(b.mainCards, 1),
                           El(b.mainCards, 2)>>,
               branches |-> [i \in 1..9 |-> El(b.branchCards, i - 1)]])

(* ------------------------------ fallbacks ----------------------------- *)

\* fallbackBasicResponse of src/index.js:192-204.  Strings are written as their
\* UTF-16 code units.
fallbackBasicResponse1(b) ==
  LET ctx == IF IsNullish(b.context) THEN Null ELSE b.context
  IN  Ok(
      [ version |-> JSStr(<<98, 97, 115, 105, 99, 95, 118, 49, 95, 106, 115, 111, 110>>),
        language |-> JSStr(<<122, 104, 45, 72, 97, 110, 116>>),
        question |-> b.question,
        context |-> ctx,
        directions |-> <<
          [ id |-> JSStr(<<65>>), cardText |-> El(b.mainCards, 0),
            actionDirection |-> JSStr(<<20808, 25226, 27880, 24847, 21147, 25289, 22238, 21487, 25511, 30340, 19968, 27493>>),
            possibleOutcome |-> JSStr(<<28966, 24942, 19979, 38477, 65292, 19979, 19968, 27493, 26356, 23481, 26131, 21855, 21205, 12290>>) ],
          [ id |-> JSStr(<<66>>), cardText |-> El(b.mainCards, 1),
            actionDirection |-> JSStr(<<29992, 23567, 35430, 25506, 25563, 21462, 26356, 30495, 23526, 30340, 22238, 39243>>),
            possibleOutcome |-> JSStr(<<36039, 35338, 35722, 22810, 65292, 21028, 26039, 26371, 26356, 36028, 36817, 29694, 27841, 12290>>) ],
          [ id |-> JSStr(<<67>>), cardText |-> El(b.mainCards, 2),
            actionDirection |-> JSStr(<<35519, 25972, 31680, 22863, 33287, 30028, 32218, 24460, 20877, 24448, 21069, 25512>>),
            possibleOutcome |-> JSStr(<<28040, 32791, 35722, 23569, 65292, 34892, 21205, 26356, 33021, 25345, 32396, 12290>>) ] >> ])

\* fallbackClearResponse of src/index.js:206-248.  Strings are written as their
\* UTF-16 code units.
fallbackClearResponse1(b) ==
  LET ctx == IF IsNullish(b.context) THEN Null ELSE b.context
  IN  Ok(
      [ version |-> JSStr(<<99, 108, 101, 97, 114, 95, 118, 49, 95, 106, 115, 111, 110>>),
        language |-> JSStr(<<122, 104, 45, 72, 97, 110, 116>>),
        question |-> b.question,
        context |-> ctx,
        directions |-> <<
          [ id |-> JSStr(<<65>>), cardText |-> El(b.mainCards, 0),
            actionDirection |-> JSStr(<<20808, 35264, 23519, 25972, 39636, 29376, 24907, 20877, 25512, 36914>>),
            possibleOutcome |-> JSStr(<<26041, 21521, 26371, 36880, 28472, 26126, 26391, 65292, 20294, 20173, 38656, 26178, 38291, 12290>>),
            branches |-> <<
              [ id |-> JSStr(<<65, 45, 49>>), cardText |-> El(b.branchCards, 0),
                possibleOutcome |-> JSStr(<<20320, 26371, 23519, 35258, 30446, 21069, 30340, 38480, 21046, 12290>>) ],
              [ id |-> JSStr(<<65, 45, 50>>), cardText |-> El(b.branchCards, 1),
                possibleOutcome |-> JSStr(<<31680, 22863, 24863, 26371, 35722, 24471, 28165, 26970, 12290>>) ],
              [ id |-> JSStr(<<65, 45, 51>>), cardText |-> El(b.branchCards, 2),
                possibleOutcome |-> JSStr(<<20320, 26371, 28187, 23569, 20839, 22312, 25289, 25199, 12290>>) ] >> ],
          [ id |-> JSStr(<<66>>), cardText |-> El(b.mainCards, 1),
            actionDirection |-> JSStr(<<35519, 25972, 36039, 28304, 37197, 32622, 33287, 30028, 32218>>),
            possibleOutcome |-> JSStr(<<22739, 21147, 38477, 20302, 65292, 36984, 25799, 26356, 19968, 33268, 12290>>),
            branches |-> <<
              [ id |-> JSStr(<<66, 45, 49>>), cardText |-> El(b.branchCards, 3),
                possibleOutcome |-> JSStr(<<20320, 26371, 37328, 28165, 30495, 27491, 30340, 37325, 40670, 12290>>) ],
              [ id |-> JSStr(<<66, 45, 50>>), cardText |-> El(b.branchCards, 4),
                possibleOutcome |-> JSStr(<<26371, 20986, 29694, 25903, 25588, 30340, 21487, 33021, 12290>>) ],
              [ id |-> JSStr(<<66, 45, 51>>), cardText |-> El(b.branchCards, 5),
                possibleOutcome |-> JSStr(<<20320, 26371, 26356, 23433, 24515, 34892, 21205, 12290>>) ] >> ],
          [ id |-> JSStr(<<67>>), cardText |-> El(b.mainCards, 2),
            actionDirection |-> JSStr(<<20808, 34892, 21205, 20877, 20462, 27491, 26041, 21521>>),
            possibleOutcome |-> JSStr(<<36914, 23637, 20986, 29694, 65292, 20294, 38656, 21453, 35206, 35519, 25972, 12290>>),
            branches |-> <<
              [ id |-> JSStr(<<67, 45, 49>>), cardText |-> El(b.branchCards, 6),
                possibleOutcome |-> JSStr(<<20320, 26371, 29554, 24471, 23526, 38555, 22238, 39243, 12290>>) ],
              [ id |-> JSStr(<<67, 45, 50>>), cardText |-> El(b.branchCards, 7),
                possibleOutcome |-> JSStr(<<20551, 35373, 26371, 34987, 37325, 26032, 27298, 35222, 12290>>) ],
              [ id |-> JSStr(<<67, 45, 51>>), cardText |-> El(b.branchCards, 8),
                possibleOutcome |-> JSStr(<<19979, 19968, 27493, 36880, 28472, 25104, 24418, 12290>>) ] >> ] >> ])

\* fallbackClearResponse of src/index.js:523-565.  Strings are written as their
\* UTF-16 code units.
fallbackClearResponse2(b) ==
  LET n == normalizeContext(b.context)
      ctx == n.val
  IN  IF ~n.ok THEN n
      ELSE Ok(
      [ version |-> JSStr(<<99, 108, 101, 97, 114, 95, 118, 49, 95, 106, 115, 111, 110>>),
        language |-> JSStr(<<122, 104, 45, 72, 97, 110, 116>>),
        question |-> b.question,
        context |-> ctx,
        directions |-> <<
          [ id |-> JSStr(<<65>>), cardText |-> El(b.mainCards, 0),
            actionDirection |-> JSStr(<<20808, 25226, 21839, 38988, 25286, 23567, 20006, 20445, 30041, 21487, 35519, 25972, 31354, 38291>>),
            possibleOutcome |-> JSStr(<<28966, 24942, 19979, 38477, 20123, 65292, 26041, 21521, 24863, 24930, 24930, 28014, 29694, 12290>>),
            branches |-> <<
              [ id |-> JSStr(<<65, 45, 49>>), cardText |-> El(b.branchCards, 0),
                possibleOutcome |-> JSStr(<<20320, 26371, 26356, 24555, 30475, 35211, 38459, 21147, 22312, 21738, 35041, 12290>>) ],
              [ id |-> JSStr(<<65, 45, 50>>), cardText |-> El(b.branchCards, 1),
                possibleOutcome |-> JSStr(<<31680, 22863, 35722, 31337, 65292, 25289, 25199, 24863, 28187, 23569, 12290>>) ],
              [ id |-> JSStr(<<65, 45, 51>>), cardText |-> El(b.branchCards, 2),
                possibleOutcome |-> JSStr(<<20320, 26371, 26356, 25954, 20570, 20986, 23567, 22039, 35430, 12290>>) ] >> ],
          [ id |-> JSStr(<<66>>), cardText |-> El(b.mainCards, 1),
            actionDirection |-> JSStr(<<20808, 37328, 28165, 30028, 32218, 33287, 36039, 28304, 20877, 20570, 19979, 19968, 27493, 36984, 25799>>),
            possibleOutcome |-> JSStr(<<36984, 25799, 26356, 19968, 33268, 65292, 20195, 20729, 20063, 26356, 21487, 25511, 12290>>),
            branches |-> <<
              [ id |-> JSStr(<<66, 45, 49>>), cardText |-> El(b.branchCards, 3),
                possibleOutcome |-> JSStr(<<20320, 26371, 28187, 23569, 19981, 24517, 35201, 30340, 28040, 32791, 12290>>) ],
              [ id |-> JSStr(<<66, 45, 50>>), cardText |-> El(b.branchCards, 4),
                possibleOutcome |-> JSStr(<<26371, 20986, 29694, 21487, 20381, 38752, 30340, 25903, 25588, 12290>>) ],
              [ id |-> JSStr(<<66, 45, 51>>), cardText |-> El(b.branchCards, 5),
                possibleOutcome |-> JSStr(<<20320, 26371, 26356, 28165, 26970, 33258, 24049, 22312, 20046, 20160, 40636, 12290>>) ] >> ],
          [ id |-> JSStr(<<67>>), cardText |-> El(b.mainCards, 2),
            actionDirection |-> JSStr(<<20808, 20570, 26368, 23567, 34892, 21205, 20006, 29992, 22238, 39243, 26657, 28310, 26041, 21521>>),
            possibleOutcome |-> JSStr(<<36914, 23637, 20986, 29694, 65292, 20294, 20063, 26371, 26292, 38706, 26032, 21839, 38988, 12290>>),
            branches |-> <<
              [ id |-> JSStr(<<67, 45, 49>>), cardText |-> El(b.branchCards, 6),
                possibleOutcome |-> JSStr(<<20320, 26371, 26356, 24555, 25343, 21040, 23526, 38555, 22238, 39243, 12290>>) ],
              [ id |-> JSStr(<<67, 45, 50>>), cardText |-> El(b.branchCards, 7),
                possibleOutcome |-> JSStr(<<26576, 20491, 20551, 35373, 26371, 34987, 37325, 26032, 27298, 35222, 12290>>) ],
              [ id |-> JSStr(<<67, 45, 51>>), cardText |-> El(b.branchCards, 8),
                possibleOutcome |-> JSStr(<<20320, 26371, 25214, 21040, 19979, 19968, 27493, 33879, 21147, 40670, 12290>>) ] >> ] >> ])

\* fallbackBasicResponse of src/index.js:567-579.  Strings are written as their
\* UTF-16 code units.
fallbackBasicResponse2(b) ==
  LET n == normalizeContext(b.context)
      ctx == n.val
  IN  IF ~n.ok THEN n
      ELSE Ok(
      [ version |-> JSStr(<<98, 97, 115, 105, 99, 95, 118, 49, 95, 106, 115, 111, 110>>),
        language |-> JSStr(<<122, 104, 45, 72, 97, 110, 116>>),
        question |-> b.question,
        context |-> ctx,
        directions |-> <<
          [ id |-> JSStr(<<65>>), cardText |-> El(b.mainCards, 0),
            actionDirection |-> JSStr(<<25226, 28966, 40670, 25289, 22238, 30495, 27491, 24819, 35299, 27770, 30340, 26680, 24515, 40670>>),
            possibleOutcome |-> JSStr(<<38620, 35338, 35722, 23569, 65292, 19979, 19968, 27493, 26356, 23481, 26131, 28014, 29694, 12290>>) ],
          [ id |-> JSStr(<<66>>), cardText |-> El(b.mainCards, 1),
            actionDirection |-> JSStr(<<20570, 19968, 20491, 20302, 39080, 38570, 30340, 23567, 35430, 25506, 20358, 25563, 21462, 22238, 39243>>),
            possibleOutcome |-> JSStr(<<20320, 26371, 24471, 21040, 21487, 29992, 32218, 32034, 65292, 24515, 26356, 23433, 23450, 12290>>) ],
          [ id |-> JSStr(<<67>>), cardText |-> El(b.mainCards, 2),
            actionDirection |-> JSStr(<<35519, 25972, 31680, 22863, 20006, 32173, 25345, 21487, 25345, 32396, 30340, 25512, 36914, 26041, 24335>>),
            possibleOutcome |-> JSStr(<<22739, 21147, 19979, 38477, 65292, 34892, 21205, 26356, 23481, 26131, 24310, 32396, 12290>>) ] >> ])

\* fallbackBasicResponse of src/unnamed/part_001:204-216.  Strings are written as their
\* UTF-16 code units.
fallbackBasicResponse3(b) ==
  LET ctx == IF IsNullish(b.context) THEN Null ELSE b.context
  IN  Ok(
      [ version |-> JSStr(<<98, 97, 115, 105, 99, 95, 118, 49, 95, 106, 115, 111, 110>>),
        language |-> JSStr(<<122, 104, 45, 72, 97, 110, 116>>),
        question |-> b.question,
        context |-> ctx,
        directions |-> <<
          [ id |-> JSStr(<<65>>), cardText |-> El(b.mainCards, 0),
            actionDirection |-> JSStr(<<20808, 25226, 27880, 24847, 21147, 25289, 22238, 21487, 25511, 30340, 19968, 27493>>),
            possibleOutcome |-> JSStr(<<28966, 24942, 19979, 38477, 65292, 19979, 19968, 27493, 26356, 23481, 26131, 21855, 21205, 12290>>) ],
          [ id |-> JSStr(<<66>>), cardText |-> El(b.mainCards, 1),
            actionDirection |-> JSStr(<<29992, 23567, 35430, 25506, 25563, 21462, 26356, 30495, 23526, 30340, 22238, 39243>>),
            possibleOutcome |-> JSStr(<<36039, 35338, 35722, 22810, 65292, 21028, 26039, 26371, 26356, 36028, 36817, 29694, 27841, 12290>>) ],
          [ id |-> JSStr(<<67>>), cardText |-> El(b.mainCards, 2),
            actionDirection |-> JSStr(<<35519, 25972, 31680, 22863, 33287, 30028, 32218, 24460, 20877, 24448, 21069, 25512>>),
            possibleOutcome |-> JSStr(<<28040, 32791, 35722, 23569, 65292, 34892, 21205, 26356, 33021, 25345, 32396, 12290>>) ] >> ])

\* fallbackClearResponse with B-1 reading branchCards[4] instead of
\* branchCards[3].
fallbackClearResponseShifted(b) ==
  LET f == fallbackClearResponse1(b)
  IN  Ok([f.val EXCEPT !.directions[2].branches[1].cardText =
                         El(b.branchCards, 4)])

\* fallbackClearResponse of src/unnamed/part_001:218-260.  Strings are written as their
\* UTF-16 code units.
fallbackClearResponse3(b) ==
  LET ctx == IF IsNullish(b.context) THEN Null ELSE b.context
  IN  Ok(
      [ version |-> JSStr(<<99, 108, 101, 97, 114, 95, 118, 49, 95, 106, 115, 111, 110>>),
        language |-> JSStr(<<122, 104, 45, 72, 97, 110, 116>>),
        question |-> b.question,
        context |-> ctx,
        directions |-> <<
          [ id |-> JSStr(<<65>>), cardText |-> El(b.mainCards, 0),
            actionDirection |-> JSStr(<<20808, 35264, 23519, 25972, 39636, 29376, 24907, 20877, 25512, 36914>>),
            possibleOutcome |-> JSStr(<<26041, 21521, 26371, 36880, 28472, 26126, 26391, 65292, 20294, 20173, 38656, 26178, 38291, 12290>>),
            branches |-> <<
              [ id |-> JSStr(<<65, 45, 49>>), cardText |-> El(b.branchCards, 0),
                possibleOutcome |-> JSStr(<<20320, 26371, 23519, 35258, 30446, 21069, 30340, 38480, 21046, 12290>>) ],
              [ id |-> JSStr(<<65, 45, 50>>), cardText |-> El(b.branchCards, 1),
                possibleOutcome |-> JSStr(<<31680, 22863, 24863, 26371, 35722, 24471, 28165, 26970, 12290>>) ],
              [ id |-> JSStr(<<65, 45, 51>>), cardText |-> El(b.branchCards, 2),
                possibleOutcome |-> JSStr(<<20320, 26371, 28187, 23569, 20839, 22312, 25289, 25199, 12290>>) ] >> ],
          [ id |-> JSStr(<<66>>), cardText |-> El(b.mainCards, 1),
            actionDirection |-> JSStr(<<35519, 25972, 36039, 28304, 37197, 32622, 33287, 30028, 32218>>),
            possibleOutcome |-> JSStr(<<22739, 21147, 38477, 20302, 65292, 36984, 25799, 26356, 19968, 33268, 12290>>),
            branches |-> <<
              [ id |-> JSStr(<<66, 45, 49>>), cardText |-> El(b.branchCards, 3),
                possibleOutcome |-> JSStr(<<20320, 26371, 37328, 28165, 30495, 27491, 30340, 37325, 40670, 12290>>) ],
              [ id |-> JSStr(<<66, 45, 50>>), cardText |-> El(b.branchCards, 4),
                possibleOutcome |-> JSStr(<<26371, 20986, 29694, 25903, 25588, 30340, 21487, 33021, 12290>>) ],
              [ id |-> JSStr(<<66, 45, 51>>), cardText |-> El(b.branchCards, 5),
                possibleOutcome |-> JSStr(<<20320, 26371, 26356, 23433, 24515, 34892, 21205, 12290>>) ] >> ],
          [ id |-> JSStr(<<67>>), cardText |-> El(b.mainCards, 2),
            actionDirection |-> JSStr(<<20808, 34892, 21205, 20877, 20462, 27491, 26041, 21521>>),
            possibleOutcome |-> JSStr(<<36914, 23637, 20986, 29694, 65292, 20294, 38656, 21453, 35206, 35519, 25972, 12290>>),
            branches |-> <<
              [ id |-> JSStr(<<67, 45, 49>>), cardText |-> El(b.branchCards, 6),
                possibleOutcome |-> JSStr(<<20320, 26371, 29554, 24471, 23526, 38555, 22238, 39243, 12290>>) ],
              [ id |-> JSStr(<<67, 45, 50>>), cardText |-> El(b.branchCards, 7),
                possibleOutcome |-> JSStr(<<20551, 35373, 26371, 34987, 37325, 26032, 27298, 35222, 12290>>) ],
              [ id |-> JSStr(<<67, 45, 51>>), cardText |-> El(b.branchCards, 8),
                possibleOutcome |-> JSStr(<<19979, 19968, 27493, 36880, 28472, 25104, 24418, 12290>>) ] >> ] >> ])


(* ------------------------------ responses ----------------------------- *)

\* badRequest(res, message) of r1 and r3.
badRequest(message) ==
  [status |-> 400,
   body |-> [error |-> "Invalid request body", message |-> message]]

\* res.status(400).json({ error: "Invalid request body" }) of r2.
badRequestV2 == [status |-> 400, body |-> [error |-> "Invalid request body"]]

\* res.json(v): status 200 with v as the body.
json(v) == [status |-> 200, body |-> v]

\* The guards of the basic handler, r1 and r3: None when the body passes.
checkBasic(b) ==
  IF ~Truthy(b.question) THEN badRequest("missing question")
  ELSE IF ~IsArray(b.mainCards) \/ Len(b.mainCards.a) # 3
  THEN badRequest("mainCards must be length 3")
  ELSE None

\* The guards of the clear handler with the length test of branchCards left
\* out.
checkClearNoBranchLength(b) ==
  IF ~Truthy(b.question) THEN badRequest("missing question")
  ELSE IF ~IsArray(b.mainCards) \/ Len(b.mainCards.a) # 3
  THEN badRequest("mainCards must be length 3")
  ELSE IF ~IsArray(b.branchCards)
  THEN badRequest("branchCards must be length 9")
  ELSE None

\* The guards of the clear handler, r1 and r3.
checkClear(b) ==
  IF ~Truthy(b.question) THEN badRequest("missing question")
  ELSE IF ~IsArray(b.mainCards) \/ Len(b.mainCards.a) # 3
  THEN badRequest("mainCards must be length 3")
  ELSE IF ~IsArray(b.branchCards) \/ Len(b.branchCards.a) # 9
  THEN badRequest("branchCards must be length 9")
  ELSE None

\* The guard of the basic handler, r2.
checkBasicV2(b) ==
  IF ~Truthy(b.question) \/ ~IsArray(b.mainCards) \/ Len(b.mainCards.a) # 3
  THEN badRequestV2 ELSE None

\* The guard of the clear handler, r2.
checkClearV2(b) ==
  IF ~Truthy(b.question) \/ ~IsArray(b.mainCards) \/ ~IsArray(b.branchCards)
     \/ Len(b.mainCards.a) # 3 \/ Len(b.branchCards.a) # 9
  THEN badRequestV2 ELSE None

(* ------------------------------ handlers ------------------------------ *)

\* A catch block that reports the error instead of substituting the
\* fallback envelope.
catchBlockReportsError(e, fb) ==
  [pc |-> "done", caught |-> e,
   res |-> [status |-> 500, body |-> [error |-> e.message]]]

\* The catch block of every handler: return res.json(fallback...(...)).
\* fb is the fallback call's outcome; when it throws inside the catch block
\* the exception leaves the async handler and nothing is sent by it.
catchBlock(e, fb) ==
  IF fb.ok THEN [pc |-> "done", caught |-> e, res |-> json(fb.val)]
  ELSE [pc |-> "escaped", caught |-> e, res |-> None]

\* A handler from its entry to the await of openai.responses.create:
\* bad is the guards' response, p the prompt builder's outcome, fb the
\* outcome the fallback call would have.
untilAwait(bad, p, fb) ==
  IF bad # None
  THEN [pc |-> "done", prompt |-> None, calls |-> 0, caught |-> None,
        res |-> bad]
  ELSE IF ~p.ok
  THEN [prompt |-> None, calls |-> 0] @@ catchBlock(p.err, fb)
  ELSE [pc |-> "awaiting", prompt |-> p.val, calls |-> 1, caught |-> None,
        res |-> None]

\* After the await in r1: Object.keys(ai) throws on a nullish reply, then
\* extractText and parseModelJSON.
afterAwait1(aiv) ==
  IF IsNullish(aiv)
  THEN [ok |-> FALSE, err |-> TypeError, rawText |-> None, parses |-> 0]
  ELSE [rawText |-> extractText1(aiv)] @@ parseModelJSON1(extractText1(aiv))

\* After the await in r2: text = (ai.output_text ?? "").trim(), then
\* parseModelJSON; extractText is not used.
afterAwait2(aiv) ==
  LET ot == Get(aiv, "output_text")
  IN  IF IsNullish(aiv) \/ ~(IsNullish(ot) \/ IsString(ot))
      THEN [ok |-> FALSE, err |-> TypeError, rawText |-> None, parses |-> 0]
      ELSE LET text == Str(Trim(IF IsNullish(ot) THEN <<>> ELSE ot.s))
           IN  [rawText |-> text] @@ parseModelJSON2(text)

\* After the await in r3: extractText and parseModelJSON.
afterAwait3(aiv) ==
  [rawText |-> extractText3(aiv)] @@ parseModelJSON3(extractText3(aiv))

\* A handler that answers with the fallback envelope whatever the try
\* block computed.
fromAwaitAlwaysFallback(o, a, fb) ==
  [ai |-> IF o.threw THEN None ELSE o.ai,
   rawText |-> IF o.threw THEN None ELSE a.rawText,
   jsonParses |-> IF o.threw THEN 0 ELSE a.parses,
   pc |-> "done",
   caught |-> IF o.threw THEN o.err ELSE IF a.ok THEN None ELSE a.err,
   res |-> json(fb.val)]

\* A handler from the settling of the await to its response: o is the
\* call's outcome, a what the try block computes from a reply.
fromAwait(o, a, fb) ==
  IF o.threw
  THEN [ai |-> None, rawText |-> None, jsonParses |-> 0]
       @@ catchBlock(o.err, fb)
  ELSE IF ~a.ok
  THEN [ai |-> o.ai, rawText |-> a.rawText, jsonParses |-> a.parses]
       @@ catchBlock(a.err, fb)
  ELSE [ai |-> o.ai, rawText |-> a.rawText, jsonParses |-> a.parses,
        pc |-> "done", caught |-> None, res |-> json(a.val)]

\* The fallback call of the handler of revision rv and variant v.
fallbackOf(rv, v, b) ==
  CASE rv = "r1" /\ v = "basic" -> fallbackBasicResponse1(b)
    [] rv = "r1" /\ v = "clear" -> fallbackClearResponse1(b)
    [] rv = "r2" /\ v = "basic" -> fallbackBasicResponse2(b)
    [] rv = "r2" /\ v = "clear" -> fallbackClearResponse2(b)
    [] rv = "r3" /\ v = "basic" -> fallbackBasicResponse3(b)
    [] rv = "r3" /\ v = "clear" -> fallbackClearResponse3(b)

\* app.post("/ai/three-card/basic") and app.post("/ai/three-card/clear") of
\* each revision, up to the await.
handlerStart(rv, v, b) ==
  CASE rv = "r1" /\ v = "basic" ->
         untilAwait(checkBasic(b), buildBasicPrompt1(b), fallbackOf(rv, v, b))
    [] rv = "r1" /\ v = "clear" ->
         untilAwait(checkClear(b), buildClearPrompt1(b), fallbackOf(rv, v, b))
    [] rv = "r2" /\ v = "basic" ->
         untilAwait(checkBasicV2(b), buildBasicPromptV2(b),
                    fallbackOf(rv, v, b))
    [] rv = "r2" /\ v = "clear" ->
         untilAwait(checkClearV2(b), buildClearPromptV2(b),
                    fallbackOf(rv, v, b))
    [] rv = "r3" /\ v = "basic" ->
         untilAwait(checkBasic(b), buildBasicPrompt3(b), fallbackOf(rv, v, b))
    [] rv = "r3" /\ v = "clear" ->
         untilAwait(checkClear(b), buildClearPrompt3(b), fallbackOf(rv, v, b))

\* The same handlers from the await on.
handlerFinish(rv, v, b, o) ==
  LET a == IF o.threw THEN None
           ELSE CASE rv = "r1" -> afterAwait1(o.ai)
                  [] rv = "r2" -> afterAwait2(o.ai)
                  [] rv = "r3" -> afterAwait3(o.ai)
  IN  fromAwait(o, a, fallbackOf(rv, v, b))

(* ------------------------------- inputs ------------------------------- *)

Revs == {"r1", "r2", "r3"}

Variants == {"basic", "clear"}

\* "要不要換工作？"
AQuestion == JSStr(<<35201, 19981, 35201, 25563, 24037, 20316, 65311>>)

\* "力量", "星星", "寶劍二"
MainLabels ==
  <<JSStr(<<21147, 37327>>), JSStr(<<26143, 26143>>),
    JSStr(<<23542, 21133, 20108>>)>>

\* "b1" .. "b9"
BranchLabels == [i \in 1..9 |-> JSStr(<<98, 48 + i>>)]

\* "愚者": a label no request carries.
OtherLabel == JSStr(<<24858, 32773>>)

Questions == {Undefined, Str(<<>>), AQuestion}

\* Contexts a JSON body can carry: absent, null, empty, blank, padded text,
\* plain text, and numbers (the field is not validated).
Contexts ==
  {Undefined, Null, Str(<<>>), Str(<<Space>>), Str(<<Space, C(99), Space>>),
   Str(<<C(99)>>), Num(5), Num(0)}

MainCardsInputs ==
  {Undefined, Arr(SubSeq(MainLabels, 1, 2)), Arr(MainLabels),
   Arr(MainLabels \o <<OtherLabel>>)}

BranchCardsInputs ==
  {Undefined, Arr(SubSeq(BranchLabels, 1, 8)), Arr(BranchLabels)}

\* The request bodies of a variant (a basic body's branchCards is not read).
BodiesOf(v) ==
  [question : Questions, context : Contexts, mainCards : MainCardsInputs,
   branchCards : IF v = "basic" THEN {Undefined} ELSE BranchCardsInputs]

(* ------------------------ the generation service ---------------------- *)

\* Prose the service writes: "先試著和主管談談目前的工作安排與期待".
GenAction ==
  JSStr(<<20808, 35430, 33879, 21644, 20027, 31649, 35527, 35527, 30446,
          21069, 30340, 24037, 20316, 23433, 25490, 33287, 26399, 24453>>)

\* "談過之後，你會更清楚去留的理由。"
GenOutcome ==
  JSStr(<<35527, 36942, 20043, 24460, 65292, 20320, 26371, 26356, 28165,
          26970, 21435, 30041, 30340, 29702, 30001, 12290>>)

DirIds == <<JSStr(<<65>>), JSStr(<<66>>), JSStr(<<67>>)>>

\* "<mainId>-<j>"
BranchId(i, j) == Str(DirIds[i].s \o <<C(45), C(48 + j)>>)

VersionOf(v) ==
  IF v = "basic"
  THEN JSStr(<<98, 97, 115, 105, 99, 95, 118, 49, 95, 106, 115, 111, 110>>)
  ELSE JSStr(<<99, 108, 101, 97, 114, 95, 118, 49, 95, 106, 115, 111, 110>>)

Language == JSStr(<<122, 104, 45, 72, 97, 110, 116>>)

\* The branches a conformant reply gives direction i.
GoodBranches(b, i) ==
  [j \in 1..3 |-> [id |-> BranchId(i, j),
                   cardText |-> El(b.branchCards, 3 * (i - 1) + j - 1),
                   possibleOutcome |-> GenOutcome]]

\* Direction i of a conformant reply.
GoodDirection(v, b, i) ==
  LET d == [id |-> DirIds[i], cardText |-> El(b.mainCards, i - 1),
            actionDirection |-> GenAction, possibleOutcome |-> GenOutcome]
  IN  IF v = "basic" THEN d ELSE d @@ [branches |-> GoodBranches(b, i)]

\* The envelope the prompt asks for.
GoodPayload(v, b) ==
  [version |-> VersionOf(v), language |-> Language, question |-> b.question,
   context |-> IF IsString(b.context) /\ Len(Trim(b.context.s)) > 0
               THEN Str(Trim(b.context.s)) ELSE Null,
   directions |-> [i \in 1..3 |-> GoodDirection(v, b, i)]]

\* Drops field f of record r.
Without(r, f) == [k \in DOMAIN r \ {f} |-> r[k]]

\* The objects the service is taken to write: the envelope asked for, and
\* envelopes that rewrite a card label, drop a field, a branch or a
\* direction, or reorder the directions; and an unrelated object.
Payloads(v, b) ==
  LET g == GoodPayload(v, b)
      d == g.directions
  IN  { g,
        [g EXCEPT !.directions[1].cardText = OtherLabel],
        [g EXCEPT !.directions = <<d[3], d[2], d[1]>>],
        [g EXCEPT !.directions = <<d[1], d[2]>>],
        [g EXCEPT !.directions[3] = Without(d[3], "possibleOutcome")],
        [a |-> Num(1)] }
      \cup (IF v = "basic" THEN {}
            ELSE { [g EXCEPT !.directions[2].branches =
                               SubSeq(d[2].branches, 1, 2)],
                   [g EXCEPT !.directions[2].branches[3].cardText =
                               OtherLabel] })

RECURSIVE PadsOf(_)
\* The runs of at most n whitespace or noise characters.
PadsOf(n) ==
  IF n = 0 THEN {<<>>}
  ELSE PadsOf(n - 1)
       \cup {p \o <<c>> : p \in PadsOf(n - 1), c \in {Space, NoiseChar}}

\* The texts the service is taken to write: nothing, a cut-off object, or a
\* serialized object, with padding before and after.
Texts(v, b) ==
  {pre \o core \o post :
     pre \in PadsOf(MaxPad), post \in PadsOf(MaxPad),
     core \in {<<>>, <<LBrace>>} \cup {Stringify(p) : p \in Payloads(v, b)}}

\* Block i of a message item that carries text t in its first block: blocks
\* after the first are a blank text block or a refusal block without text.
BlockAt(t, i) ==
  IF i = 1 THEN Obj([type |-> "output_text", text |-> Str(t)])
  ELSE IF i % 2 = 0 THEN Obj([type |-> "output_text", text |-> Str(<<Newline>>)])
  ELSE Obj([type |-> "refusal"])

\* The reply envelopes: the text in output_text, or output_text empty and
\* the text in the content blocks of the message item that follows a
\* reasoning item (which has no content).
Replies(v, b) ==
  {Obj([output_text |-> Str(t), output |-> Arr(<<>>)]) : t \in Texts(v, b)}
  \cup
  {Obj([output_text |-> Str(<<>>),
        output |-> Arr(<<Obj([type |-> "reasoning"]),
                         Obj([type |-> "message",
                              content |-> Arr([i \in 1..n |-> BlockAt(t, i)])])
                       >>)]) :
     t \in Texts(v, b), n \in 1..MaxBlocks}

\* The error of a failed call (timeout, quota, transport).
ServiceError == [name |-> "APIError", message |-> "GENERATION_SERVICE_FAILED"]

\* What the await settles with.
ServiceOutcomes(v, b) ==
  {[threw |-> TRUE, err |-> ServiceError]}
  \cup {[threw |-> FALSE, ai |-> a] : a \in Replies(v, b)}

(* --------------------------- the state machine ------------------------ *)

\* The requests of the specification Spec: one at a time.
OneRequest == {1}

\* What the framework does with an exception that leaves an async handler:
\* nothing (the request is never answered) or its own error response,
\* depending on the framework's version.
EscapeOutcomes ==
  {None, [status |-> 500, body |-> [error |-> "Internal Server Error"]]}

InitOver(R) ==
  /\ pc = [r \in R |-> "idle"]
  /\ rev = [r \in R |-> None]
  /\ variant = [r \in R |-> None]
  /\ body = [r \in R |-> None]
  /\ prompt = [r \in R |-> None]
  /\ calls = [r \in R |-> 0]
  /\ ai = [r \in R |-> None]
  /\ rawText = [r \in R |-> None]
  /\ caught = [r \in R |-> None]
  /\ jsonParses = [r \in R |-> 0]
  /\ res = [r \in R |-> None]

Init == InitOver(OneRequest)

\* The handler of revision rv and variant v runs for request r with body b,
\* to the await or to its response.
Arrive(r, rv, v, b) ==
  LET st == handlerStart(rv, v, b)
  IN  /\ rev' = [rev EXCEPT ![r] = rv]
      /\ variant' = [variant EXCEPT ![r] = v]
      /\ body' = [body EXCEPT ![r] = b]
      /\ pc' = [pc EXCEPT ![r] = st.pc]
      /\ prompt' = [prompt EXCEPT ![r] = st.prompt]
      /\ calls' = [calls EXCEPT ![r] = st.calls]
      /\ caught' = [caught EXCEPT ![r] = st.caught]
      /\ \E out \in (IF st.pc = "escaped" THEN EscapeOutcomes
                     ELSE {st.res}) :
           res' = [res EXCEPT ![r] = out]
      /\ UNCHANGED <<ai, rawText, jsonParses>>

\* A handler that reads the request from a variable of the module, which
\* the latest arrival has overwritten, instead of its own closure.
SettleFromSharedRequest(r, o) ==
  LET q  == CHOOSE q \in DOMAIN pc :
              /\ pc[q] # "idle"
              /\ \A s \in DOMAIN pc : pc[s] # "idle" => s <= q
      st == handlerFinish(rev[r], variant[r], body[q], o)
  IN  /\ pc' = [pc EXCEPT ![r] = st.pc]
      /\ ai' = [ai EXCEPT ![r] = st.ai]
      /\ rawText' = [rawText EXCEPT ![r] = st.rawText]
      /\ jsonParses' = [jsonParses EXCEPT ![r] = st.jsonParses]
      /\ caught' = [caught EXCEPT ![r] = st.caught]
      /\ res' = [res EXCEPT ![r] = st.res]
      /\ UNCHANGED <<rev, variant, body, prompt, calls>>

\* The await of request r settles with o and its handler runs to the
\* response, reading the request from its own closure.
Settle(r, o) ==
  LET st == handlerFinish(rev[r], variant[r], body[r], o)
  IN  /\ pc' = [pc EXCEPT ![r] = st.pc]
      /\ ai' = [ai EXCEPT ![r] = st.ai]
      /\ rawText' = [rawText EXCEPT ![r] = st.rawText]
      /\ jsonParses' = [jsonParses EXCEPT ![r] = st.jsonParses]
      /\ caught' = [caught EXCEPT ![r] = st.caught]
      /\ \E out \in (IF st.pc = "escaped" THEN EscapeOutcomes
                     ELSE {st.res}) :
           res' = [res EXCEPT ![r] = out]
      /\ UNCHANGED <<rev, variant, body, prompt, calls>>

\* A request arrives and its handler runs to the await, or to its response.
Receive(r) ==
  /\ pc[r] = "idle"
  /\ \E rv \in Revs, v \in Variants :
       \E b \in BodiesOf(v) : Arrive(r, rv, v, b)

\* The call settles and the handler runs to its response.
Resume(r) ==
  /\ pc[r] = "awaiting"
  /\ \E o \in ServiceOutcomes(variant[r], body[r]) : Settle(r, o)

Next ==
  \/ \E r \in DOMAIN pc : Receive(r)
  \/ \E r \in DOMAIN pc : Resume(r)

Spec == Init /\ [][Next]_vars

(* ------------------ parseModelJSON as a pure function ----------------- *)

\* parseModelJSON of revision rv.
parseModelJSONOf(rv, raw) ==
  CASE rv = "r1" -> parseModelJSON1(raw)
    [] rv = "r2" -> parseModelJSON2(raw)
    [] rv = "r3" -> parseModelJSON3(raw)

\* A text of noise longer than either preview length.
LongNoise == [i \in 1..(PreviewLen3 + 1) |-> NoiseChar]

\* The arguments parseModelJSON is applied to: no text, the texts the
\* service writes for one detailed request, and a long unparseable text.
ParseInputs ==
  {Undefined, Null, Str(LongNoise)}
  \cup {Str(t) : t \in Texts("clear", [question |-> AQuestion, context |-> Null,
                                       mainCards |-> Arr(MainLabels),
                                       branchCards |-> Arr(BranchLabels)])}

\* One application of parseModelJSON: rawText is its argument, caught the
\* error it throws, res the value it returns.
ParseApply(r) ==
  /\ pc[r] = "idle"
  /\ \E rv \in Revs, t \in ParseInputs :
       LET p == parseModelJSONOf(rv, t)
       IN  /\ pc' = [pc EXCEPT ![r] = "parsed"]
           /\ rev' = [rev EXCEPT ![r] = rv]
           /\ rawText' = [rawText EXCEPT ![r] = t]
           /\ jsonParses' = [jsonParses EXCEPT ![r] = p.parses]
           /\ caught' = [caught EXCEPT ![r] = IF p.ok THEN None ELSE p.err]
           /\ res' = [res EXCEPT ![r] = IF p.ok THEN p.val ELSE None]
           /\ UNCHANGED <<variant, body, prompt, calls, ai>>

NextParse == \E r \in DOMAIN pc : ParseApply(r)

SpecParse == Init /\ [][NextParse]_vars

(* -------------------- extractText as a pure function ------------------ *)

\* A call of extractText that reads resp.output_text without the optional
\* chaining: it throws on a reply that is null or undefined.
extractTextOfUnguarded(rv, resp) ==
  IF IsNullish(resp) THEN Throw(TypeError)
  ELSE Ok(IF rv = "r1" THEN extractText1(resp) ELSE extractText3(resp))

\* A call of extractText of revision rv (r2 has no extractText): every
\* property access in it is guarded, so the call completes with a value.
extractTextOf(rv, resp) ==
  Ok(IF rv = "r1" THEN extractText1(resp) ELSE extractText3(resp))

\* The revisions that define extractText.
ExtractRevs == {"r1", "r3"}

\* A block type the comment of extractText does not list.
OtherType == "annotation"

\* The content entries extractText may meet: null, text blocks of the two
\* listed types, a block of another type with a text, and blocks whose
\* text is missing, not a string, or empty.
BlockShapes ==
  {Null,
   Obj([type |-> "output_text", text |-> JSStr(<<97>>)]),
   Obj([type |-> "text", text |-> JSStr(<<32, 98>>)]),
   Obj([type |-> OtherType, text |-> JSStr(<<117>>)]),
   Obj([type |-> "refusal"]),
   Obj([type |-> "output_text", text |-> Num(5)]),
   Obj([type |-> "output_text", text |-> Str(<<>>)])}

RECURSIVE ContentsOf(_)
\* The content arrays of at most n entries.
ContentsOf(n) ==
  IF n = 0 THEN {<<>>}
  ELSE ContentsOf(n - 1)
       \cup {bs \o <<c>> : bs \in {x \in ContentsOf(n - 1) : Len(x) = n - 1},
                            c \in BlockShapes}

\* What may precede the message item in output: nothing, a null, an item
\* without content, an item whose content is not an array, or another
\* message item.
ItemPrefixes ==
  {<<>>, <<Null>>, <<Obj([type |-> "reasoning"])>>,
   <<Obj([type |-> "message", content |-> Num(1)])>>,
   <<Obj([type |-> "message",
          content |-> Arr(<<Obj([type |-> "output_text",
                                 text |-> JSStr(<<99>>)])>>)])>>}

\* The reply envelopes extractText is applied to.
ExtractInputs ==
  {Undefined, Null}
  \cup {Obj([output |-> o]) : o \in {Null, Num(1), Arr(<<>>)}}
  \cup {Obj([output_text |-> ot]) :
          ot \in {Null, Num(5), Str(<<>>), JSStr(<<32>>), JSStr(<<32, 111>>)}}
  \cup {Obj([output_text |-> ot,
             output |-> Arr(pre \o <<Obj([type |-> "message",
                                          content |-> Arr(bs)])>>)]) :
          ot \in {Str(<<>>), JSStr(<<111>>)}, pre \in ItemPrefixes,
          bs \in ContentsOf(MaxBlocks)}

\* One application of extractText, and of parseModelJSON to its result as
\* the handlers do: ai is the argument, rawText the string returned,
\* caught the error thrown by either.
ExtractApply(r) ==
  /\ pc[r] = "idle"
  /\ \E rv \in ExtractRevs, a \in ExtractInputs :
       LET x == extractTextOf(rv, a)
           p == IF x.ok THEN parseModelJSONOf(rv, x.val)
                ELSE [ok |-> FALSE, err |-> x.err, parses |-> 0]
       IN  /\ pc' = [pc EXCEPT ![r] = "extracted"]
           /\ rev' = [rev EXCEPT ![r] = rv]
           /\ ai' = [ai EXCEPT ![r] = a]
           /\ rawText' = [rawText EXCEPT ![r] = IF x.ok THEN x.val ELSE None]
           /\ jsonParses' = [jsonParses EXCEPT ![r] = p.parses]
           /\ caught' = [caught EXCEPT ![r] = IF p.ok THEN None ELSE p.err]
           /\ res' = [res EXCEPT ![r] = IF p.ok THEN p.val ELSE None]
           /\ UNCHANGED <<variant, body, prompt, calls>>

NextExtract == \E r \in DOMAIN pc : ExtractApply(r)

SpecExtract == Init /\ [][NextExtract]_vars

(* ------------------------ requests in flight -------------------------- *)

\* Number of requests in flight at once in SpecConc.
NumConc == 2

\* The string s followed by the digit of request r: every request of
\* SpecConc carries strings no other request carries.
Own(s, r) == Str(s.s \o <<C(48 + r)>>)

\* The bodies request r may carry in SpecConc: valid ones, with a string
\* context or a number.
ConcBodies(r) ==
  {[question |-> Own(AQuestion, r),
    context |-> c,
    mainCards |-> Arr([i \in 1..3 |-> Own(MainLabels[i], r)]),
    branchCards |-> Arr([i \in 1..9 |-> Own(BranchLabels[i], r)])] :
     c \in {Own(Str(<<C(99)>>), r), Num(5)}}

\* What the await settles with in SpecConc: a failed call, the envelope
\* asked for, or a text that cannot be parsed.
ConcOutcomes(v, b) ==
  {[threw |-> TRUE, err |-> ServiceError]}
  \cup {[threw |-> FALSE,
         ai |-> Obj([output_text |-> Str(t), output |-> Arr(<<>>)])] :
          t \in {Stringify(GoodPayload(v, b)), <<NoiseChar>>}}

InitConc == InitOver(1..NumConc)

\* A request arrives while others may be awaiting their calls; one process
\* runs one revision of the server.
ReceiveConc(r) ==
  /\ pc[r] = "idle"
  /\ \E rv \in Revs, v \in Variants :
       /\ \A q \in DOMAIN pc : pc[q] # "idle" => rev[q] = rv
       /\ \E b \in ConcBodies(r) : Arrive(r, rv, v, b)

\* The call of some request settles, in any order among the requests.
ResumeConc(r) ==
  /\ pc[r] = "awaiting"
  /\ \E o \in ConcOutcomes(variant[r], body[r]) : Settle(r, o)

NextConc ==
  \/ \E r \in DOMAIN pc : ReceiveConc(r)
  \/ \E r \in DOMAIN pc : ResumeConc(r)

SpecConc == InitConc /\ [][NextConc]_vars

(* ------------------------------- claims ------------------------------- *)

\* A request passes boundary validation: a truthy question, mainCards an
\* array of 3 and, for the detailed variant, branchCards an array of 9.
ValidBody(v, b) ==
  /\ Truthy(b.question)
  /\ IsArray(b.mainCards) /\ Len(b.mainCards.a) = 3
  /\ v = "clear" => IsArray(b.branchCards) /\ Len(b.branchCards.a) = 9

\* The handler of request r has finished, with or without a response.
Finished(r) == pc[r] \in {"done", "escaped"}

\* Request r was answered from the try block (the success path).
Succeeded(r) == pc[r] = "done" /\ caught[r] = None /\ res[r].status = 200

\* Request r was answered from the catch block (the fallback path).
FellBack(r) == pc[r] = "done" /\ caught[r] # None /\ res[r].status = 200

\* A text of whitespace only.
Blank(s) == \A i \in 1..Len(s) : s[i].k = "c" /\ s[i].cp \in {9, 10, 13, 32}

\* Envelope e carries the question and the card labels of body b.
CarriesRequest(v, b, e) ==
  /\ e.question = b.question
  /\ \A i \in 1..3 : e.directions[i].cardText = b.mainCards.a[i]
  /\ v = "clear" =>
       \A i \in 1..3 : \A j \in 1..3 :
         e.directions[i].branches[j].cardText = b.branchCards.a[3 * (i - 1) + j]

\* The generation of request r failed: the call threw, or the extracted
\* text is empty, or it cannot be parsed.
GenerationFailed(r) ==
  /\ Finished(r) /\ calls[r] = 1
  /\ \/ caught[r] = ServiceError
     \/ /\ rawText[r] # None
        /\ \/ Blank(rawText[r].s)
           \/ ~JSONparse(rawText[r].s).ok

\* C1: whenever the generation call throws, or the extracted text is empty,
\* or the text cannot be parsed, the handler answers 200 with the fallback
\* envelope built from the request (its question, its card labels), never
\* with an error response.
C1_FailureYieldsFallback ==
  \A r \in DOMAIN pc :
    GenerationFailed(r) =>
      /\ pc[r] = "done"
      /\ res[r] = json(fallbackOf(rev[r], variant[r], body[r]).val)
      /\ CarriesRequest(variant[r], body[r], res[r].body)

\* C1 witness: a reply that cannot be parsed was answered with the fallback.
C1_Witness ==
  \E r \in DOMAIN pc :
    /\ GenerationFailed(r) /\ rawText[r] # None /\ ~Blank(rawText[r].s)
    /\ FellBack(r) /\ variant[r] = "clear"

\* Every cardText of envelope e is the input label at its position.
CardTextVerbatim(v, b, e) ==
  "directions" \in DOMAIN e =>
    \A i \in DOMAIN e.directions :
      LET d == e.directions[i]
      IN  /\ d.cardText = El(b.mainCards, i - 1)
          /\ (v = "clear" /\ "branches" \in DOMAIN d) =>
               \A j \in DOMAIN d.branches :
                 d.branches[j].cardText = El(b.branchCards, 3 * (i - 1) + j - 1)

\* C2: every envelope returned from the success path has, in every
\* direction and branch, the cardText of the corresponding input label.
C2_SuccessCardTextVerbatim ==
  \A r \in DOMAIN pc :
    Succeeded(r) => CardTextVerbatim(variant[r], body[r], res[r].body)

\* Payload e has exactly 3 directions with ids A, B, C in that order, each
\* with possibleOutcome, and in the detailed variant 3 branches each.
StructurallyConformant(v, e) ==
  /\ "directions" \in DOMAIN e
  /\ Len(e.directions) = 3
  /\ \A i \in 1..3 :
       LET d == e.directions[i]
       IN  /\ d.id = DirIds[i]
           /\ "possibleOutcome" \in DOMAIN d
           /\ v = "clear" => "branches" \in DOMAIN d /\ Len(d.branches) = 3

\* C3: a parsed payload that is structurally non-conformant is never the
\* success response.
C3_NonConformantRejected ==
  \A r \in DOMAIN pc :
    Succeeded(r) => StructurallyConformant(variant[r], res[r].body)

\* C4: a request that passes boundary validation has had exactly one call of
\* the generation service when its handler finishes.
C4_ExactlyOneCall ==
  \A r \in DOMAIN pc :
    (Finished(r) /\ ValidBody(variant[r], body[r])) => calls[r] = 1

\* C5: a request that fails boundary validation is answered 400; no prompt
\* is built, the service is not called and no envelope is returned.
C5_InvalidRejected ==
  \A r \in DOMAIN pc :
    (pc[r] # "idle" /\ ~ValidBody(variant[r], body[r])) =>
      /\ pc[r] = "done"
      /\ res[r].status = 400
      /\ "directions" \notin DOMAIN res[r].body
      /\ prompt[r] = None
      /\ calls[r] = 0

\* C5 witness: a detailed request with 8 branch cards was answered 400.
C5_Witness ==
  \E r \in DOMAIN pc :
    /\ pc[r] = "done" /\ variant[r] = "clear"
    /\ Truthy(body[r].question)
    /\ IsArray(body[r].mainCards) /\ Len(body[r].mainCards.a) = 3
    /\ IsArray(body[r].branchCards) /\ Len(body[r].branchCards.a) = 8
    /\ res[r].status = 400

\* The request supplied no context, or an empty or whitespace-only one.
NoContext(b) ==
  IsNullish(b.context) \/ (IsString(b.context) /\ Blank(b.context.s))

\* C6: a fallback envelope's context is null when the request supplied no
\* non-blank context, and is never an empty or blank string.
C6_FallbackContextNormalized ==
  \A r \in DOMAIN pc :
    FellBack(r) =>
      /\ NoContext(body[r]) => res[r].body.context = Null
      /\ ~(IsString(res[r].body.context) /\ Blank(res[r].body.context.s))

\* A non-empty string.
NonEmptyString(x) == IsString(x) /\ Len(x.s) > 0

\* C7: every fallback envelope has the variant's version and language tags,
\* exactly 3 directions with ids A, B, C and cardText mainCards[0..2], in
\* the detailed variant exactly 3 branches per direction with ids
\* <mainId>-1..3 and cardText branchCards[3*i+j], and non-empty prose.
C7_FallbackShape ==
  \A r \in DOMAIN pc :
    FellBack(r) =>
      LET v == variant[r]
          b == body[r]
          e == res[r].body
      IN  /\ e.version = VersionOf(v)
          /\ e.language = Language
          /\ Len(e.directions) = 3
          /\ \A i \in 1..3 :
               LET d == e.directions[i]
               IN  /\ d.id = DirIds[i]
                   /\ d.cardText = b.mainCards.a[i]
                   /\ NonEmptyString(d.actionDirection)
                   /\ NonEmptyString(d.possibleOutcome)
                   /\ ("branches" \in DOMAIN d) = (v = "clear")
                   /\ v = "clear" =>
                        /\ Len(d.branches) = 3
                        /\ \A j \in 1..3 :
                             /\ d.branches[j].id = BranchId(i, j)
                             /\ d.branches[j].cardText =
                                  b.branchCards.a[3 * (i - 1) + j]
                             /\ NonEmptyString(d.branches[j].possibleOutcome)

\* C7 witness: a detailed request of revision r3 was answered with the
\* fallback envelope.
C7_Witness ==
  \E r \in DOMAIN pc : FellBack(r) /\ variant[r] = "clear" /\ rev[r] = "r3"

\* The length limits the prompts state: actionDirection 15 to 30 characters.
ActionDirectionMin == 15

ActionDirectionMax == 30

\* possibleOutcome at most 50 characters.
PossibleOutcomeMax == 50

\* C8: in every fallback envelope each actionDirection has between 15 and
\* 30 characters and each possibleOutcome at most 50.
C8_FallbackProseLengths ==
  \A r \in DOMAIN pc :
    FellBack(r) =>
      \A i \in 1..3 :
        LET d == res[r].body.directions[i]
        IN  /\ Len(d.actionDirection.s) >= ActionDirectionMin
            /\ Len(d.actionDirection.s) <= ActionDirectionMax
            /\ Len(d.possibleOutcome.s) <= PossibleOutcomeMax
            /\ "branches" \in DOMAIN d =>
                 \A j \in 1..3 :
                   Len(d.branches[j].possibleOutcome.s) <= PossibleOutcomeMax

\* The substring from the first opening brace to the last closing brace of
\* s, or the empty text when s has no such pair.
Carve(s) ==
  LET opens  == {i \in 1..Len(s) : s[i] = LBrace}
      closes == {i \in 1..Len(s) : s[i] = RBrace}
  IN  IF opens = {} \/ closes = {} THEN <<>>
      ELSE LET lo == CHOOSE i \in opens : \A j \in opens : i <= j
               hi == CHOOSE i \in closes : \A j \in closes : j <= i
           IN  SubSeq(s, lo, hi)

\* C9: when the extracted text is not parseable as it stands but the
\* substring from its first opening brace to its last closing brace is, the
\* handler responds with the object parsed from that substring.
C9_BraceCarvingRecovers ==
  \A r \in DOMAIN pc :
    (/\ Finished(r) /\ rawText[r] # None
     /\ ~JSONparse(rawText[r].s).ok
     /\ JSONparse(Carve(rawText[r].s)).ok) =>
      /\ pc[r] = "done"
      /\ res[r] = json(JSONparse(Carve(rawText[r].s)).val)

\* The argument of parseModelJSON is absent, empty or whitespace-only.
NoText(raw) == IsNullish(raw) \/ (IsString(raw) /\ Blank(raw.s))

\* C10: applied to an absent, empty or whitespace-only text, parseModelJSON
\* throws EMPTY_MODEL_OUTPUT without having called JSON.parse.
C10_EmptyOutputError ==
  \A r \in DOMAIN pc :
    (pc[r] = "parsed" /\ NoText(rawText[r])) =>
      /\ caught[r] # None
      /\ caught[r].message = "EMPTY_MODEL_OUTPUT"
      /\ jsonParses[r] = 0

\* C10 witness: parseModelJSON of r2 was applied to a whitespace-only text.
C10_Witness ==
  \E r \in DOMAIN pc :
    /\ pc[r] = "parsed" /\ rev[r] = "r2"
    /\ IsString(rawText[r]) /\ Len(rawText[r].s) > 0 /\ Blank(rawText[r].s)
    /\ caught[r] # None

\* The preview length of revision rv's parseModelJSON (r2 writes no preview).
PreviewBound(rv) == IF rv = "r3" THEN PreviewLen3 ELSE PreviewLen1

\* C11: applied to a non-empty text that cannot be parsed, parseModelJSON
\* throws an error tagged JSON_PARSE_FAILED that carries the parser's
\* diagnostic and a preview that is a prefix of the trimmed text no longer
\* than the preview length.
C11_ParseFailureTagged ==
  \A r \in DOMAIN pc :
    (/\ pc[r] = "parsed" /\ ~NoText(rawText[r])
     /\ ~JSONparse(rawText[r].s).ok) =>
      /\ caught[r] # None
      /\ caught[r].message = "JSON_PARSE_FAILED"
      /\ "code" \in DOMAIN caught[r] /\ caught[r].code = "JSON_PARSE_FAILED"
      /\ "details" \in DOMAIN caught[r]
      /\ caught[r].details = SyntaxError.message
      /\ "preview" \in DOMAIN caught[r]
      /\ Len(caught[r].preview) <= PreviewBound(rev[r])
      /\ \E n \in 0..PreviewBound(rev[r]) :
           /\ n <= Len(Trim(rawText[r].s))
           /\ caught[r].preview = SubSeq(Trim(rawText[r].s), 1, n)
           /\ n = PreviewBound(rev[r]) \/ n = Len(Trim(rawText[r].s))

\* C12: whenever the extracted text parses, the response is 200 with the
\* parsed value as its body, field for field; the fallback envelope is not
\* sent.
C12_SuccessPassThrough ==
  \A r \in DOMAIN pc :
    (Finished(r) /\ rawText[r] # None /\ JSONparse(rawText[r].s).ok) =>
      /\ pc[r] = "done"
      /\ caught[r] = None
      /\ res[r] = json(JSONparse(rawText[r].s).val)
      /\ res[r].body \in Payloads(variant[r], body[r])

\* C12 witness: a detailed reply whose direction A carries a label the
\* request did not send was returned with that label.
C12_Witness ==
  \E r \in DOMAIN pc :
    /\ Succeeded(r) /\ variant[r] = "clear"
    /\ "directions" \in DOMAIN res[r].body
    /\ res[r].body.directions[1].cardText = OtherLabel

\* The strings request body b carries.
RequestStrings(b) ==
  {x \in {b.question, b.context} : IsString(x)}
  \cup {b.mainCards.a[i] : i \in 1..3} \cup {b.branchCards.a[i] : i \in 1..9}

\* The question, context and card labels envelope e of variant v carries.
EnvelopeStrings(v, e) ==
  {e.question, e.context}
  \cup {e.directions[i].cardText : i \in 1..3}
  \cup (IF v = "basic" THEN {}
        ELSE {e.directions[i].branches[j].cardText : i \in 1..3, j \in 1..3})

\* The step leaves the part of the state that belongs to request q alone.
LocalUnchanged(q) ==
  /\ rev'[q] = rev[q] /\ variant'[q] = variant[q] /\ body'[q] = body[q]
  /\ prompt'[q] = prompt[q] /\ calls'[q] = calls[q] /\ ai'[q] = ai[q]
  /\ rawText'[q] = rawText[q] /\ caught'[q] = caught[q]
  /\ jsonParses'[q] = jsonParses[q] /\ res'[q] = res[q]

\* The response of request r follows from its own body and its own reply.
OwnResponse(r) ==
  /\ prompt[r] = handlerStart(rev[r], variant[r], body[r]).prompt
  /\ pc[r] = "escaped" => res[r] \in EscapeOutcomes
  /\ pc[r] = "done" =>
       /\ res[r].status = 200
       /\ IF caught[r] = None
          THEN res[r].body = JSONparse(rawText[r].s).val
          ELSE res[r].body = fallbackOf(rev[r], variant[r], body[r]).val
       /\ \A q \in DOMAIN pc \ {r} :
            pc[q] # "idle" =>
              EnvelopeStrings(variant[r], res[r].body)
                \cap RequestStrings(body[q]) = {}

StatedExtract(a) ==
  LET ot  == Get(a, "output_text")
      out == Get(a, "output")
  IN  IF IsString(ot) /\ Len(ot.s) > 0 THEN ot
      ELSE Str(Join(IF IsArray(out) THEN Chunks1(out.a) ELSE <<>>, <<>>))

\* C14: the text taken from a reply is output_text whenever that is a
\* non-empty string, and otherwise the texts of the nested content blocks
\* concatenated in list order; so a reply whose text is only in the nested
\* blocks is parsed, and answered from it when it parses.
C14_ExtractPrefersTopLevel ==
  \A r \in DOMAIN pc :
    (Finished(r) /\ ai[r] # None /\ ~IsNullish(ai[r])) =>
      /\ rawText[r] = StatedExtract(ai[r])
      /\ JSONparse(StatedExtract(ai[r]).s).ok => Succeeded(r)

\* The block types that denote textual content.
TextualTypes == {"output_text", "text"}

RECURSIVE BlocksOf(_)
\* The content entries of the items, in list order.
BlocksOf(items) ==
  IF Len(items) = 0 THEN <<>>
  ELSE (IF IsArray(Get(items[1], "content"))
        THEN Get(items[1], "content").a ELSE <<>>)
       \o BlocksOf(Tail(items))

\* The content entries of reply a that have a text.
TextBlocks(a) ==
  SelectSeq(IF IsArray(Get(a, "output")) THEN BlocksOf(Get(a, "output").a)
            ELSE <<>>,
            LAMBDA c : IsString(Get(c, "text")) /\ Len(Get(c, "text").s) > 0)

\* extractText walked the nested blocks of reply a: output_text is not a
\* non-empty string.
Walked(a) ==
  ~(IsString(Get(a, "output_text")) /\ Len(Get(a, "output_text").s) > 0)

\* C15: in the walk of the nested blocks a block whose type is not a
\* textual one is skipped even when it has a text: its text is not in the
\* extracted string, and a reply whose only texts are in such blocks
\* extracts to the empty string and ends in EMPTY_MODEL_OUTPUT.
C15_UnknownKindSkipped ==
  \A r \in DOMAIN pc :
    (pc[r] = "extracted" /\ Walked(ai[r])) =>
      LET tb == TextBlocks(ai[r])
      IN  /\ \A i \in 1..Len(tb) :
               tb[i].f.type \notin TextualTypes =>
                 \A k \in 1..Len(rawText[r].s) :
                   rawText[r].s[k] # tb[i].f.text.s[1]
          /\ (\A i \in 1..Len(tb) : tb[i].f.type \notin TextualTypes) =>
               /\ rawText[r] = Str(<<>>)
               /\ caught[r] # None
               /\ caught[r].message = "EMPTY_MODEL_OUTPUT"

\* C16: extractText never throws, whatever the shape of the reply: a null
\* or undefined reply, a missing or non-array output, items that are null
\* or have no content array, and content entries that are null or whose
\* text is missing or not a string all yield a string, possibly empty.
C16_ExtractNeverThrows ==
  \A r \in DOMAIN pc :
    pc[r] = "extracted" =>
      /\ rawText[r] # None /\ IsString(rawText[r])
      /\ caught[r] # None =>
           caught[r].message \in {"EMPTY_MODEL_OUTPUT", "JSON_PARSE_FAILED"}
      /\ TextBlocks(ai[r]) = <<>> /\ Walked(ai[r]) => rawText[r] = Str(<<>>)

\* C16 witness: extractText was applied to a reply whose output holds a
\* null item and whose content holds a null entry and a text that is not a
\* string, and returned the text of the one good block.
C16_Witness ==
  \E r \in DOMAIN pc :
    /\ pc[r] = "extracted" /\ ~IsNullish(ai[r])
    /\ IsArray(Get(ai[r], "output")) /\ Len(Get(ai[r], "output").a) = 2
    /\ Get(ai[r], "output").a[1] = Null
    /\ LET bs == BlocksOf(Get(ai[r], "output").a)
       IN  /\ Len(bs) = 2 /\ bs[1] = Null /\ Len(TextBlocks(ai[r])) = 1
    /\ Walked(ai[r]) /\ Len(rawText[r].s) > 0

\* C17: every request that passes the boundary validation is answered
\* exactly once when its handler finishes, whatever the context field
\* holds: no exception raised while building the prompt or the fallback
\* envelope leaves the catch block.
C17_ValidRequestAnswered ==
  \A r \in DOMAIN pc :
    (Finished(r) /\ ValidBody(variant[r], body[r])) =>
      /\ pc[r] = "done"
      /\ res[r] # None /\ res[r].status = 200

====
